---- MODULE Spec2Model ----
(***************************************************************************)
(* ble::ConnectionParameters (features/FEATURE_BLE/ble/gap/                *)
(* ConnectionParameters.h): the per-PHY store of connection parameters,    *)
(* the enabled-PHY flags, and the slot compaction done by handlePhyToggle  *)
(* and swapCodedAnd2M.                                                     *)
(*                                                                         *)
(* The object is modelled by one variable per data member.  Every member   *)
(* function is an operator on the record of the members ("this"), and an   *)
(* action applies that operator to the current object.                     *)
(***************************************************************************)
EXTENDS Integers, Sequences, FiniteSets, TLC

VARIABLES
    _scanInterval,                  \* uint16_t[MAX_PARAM_PHYS]
    _scanWindow,
    _minConnectionInterval,
    _maxConnectionInterval,
    _slaveLatency,
    _connectionSupervisionTimeout,
    _minEventLength,
    _maxEventLength,
    _enabledPhy,                    \* bool[MAX_PARAM_PHYS]
    lastSet,                        \* history: per PHY, the values last passed to a setter
    last                            \* history: the last completed call and what it returned

members == << _scanInterval, _scanWindow, _minConnectionInterval,
              _maxConnectionInterval, _slaveLatency,
              _connectionSupervisionTimeout, _minEventLength,
              _maxEventLength, _enabledPhy >>

vars == << _scanInterval, _scanWindow, _minConnectionInterval,
           _maxConnectionInterval, _slaveLatency,
           _connectionSupervisionTimeout, _minEventLength,
           _maxEventLength, _enabledPhy, lastSet, last >>

-----------------------------------------------------------------------------
(* Bound of the model: how many different argument vectors                 *)
(* setConnectionParameters is called with.                                 *)

MaxConnInput == 2

-----------------------------------------------------------------------------
(* Program constants and types.                                            *)

MAX_PARAM_PHYS == 3

\* ble::phy_t values, used by the class as array indices.
LE_1M == 0

LE_2M == 1

LE_CODED == 2

Phys == {LE_1M, LE_2M, LE_CODED}

Slots == 0 .. (MAX_PARAM_PHYS - 1)

\* Values of the constructor's initialisation loop.
DefaultScanInterval == 4

DefaultScanWindow == 4

DefaultMinConnectionInterval == 6

DefaultMaxConnectionInterval == 3200

DefaultSlaveLatency == 0

DefaultConnectionSupervisionTimeout == 3200

DefaultMinEventLength == 0

DefaultMaxEventLength == 65535

\* The eight parameter series, by member name.
ScanSeries == {"_scanInterval", "_scanWindow"}

ConnSeries == {"_minConnectionInterval", "_maxConnectionInterval",
               "_slaveLatency", "_connectionSupervisionTimeout",
               "_minEventLength", "_maxEventLength"}

Series == ScanSeries \cup ConnSeries

\* The object as one value.
this ==
    [ _scanInterval |-> _scanInterval,
      _scanWindow |-> _scanWindow,
      _minConnectionInterval |-> _minConnectionInterval,
      _maxConnectionInterval |-> _maxConnectionInterval,
      _slaveLatency |-> _slaveLatency,
      _connectionSupervisionTimeout |-> _connectionSupervisionTimeout,
      _minEventLength |-> _minEventLength,
      _maxEventLength |-> _maxEventLength,
      _enabledPhy |-> _enabledPhy ]

\* The object after the step.
Becomes(o) ==
    /\ _scanInterval' = o._scanInterval
    /\ _scanWindow' = o._scanWindow
    /\ _minConnectionInterval' = o._minConnectionInterval
    /\ _maxConnectionInterval' = o._maxConnectionInterval
    /\ _slaveLatency' = o._slaveLatency
    /\ _connectionSupervisionTimeout' = o._connectionSupervisionTimeout
    /\ _minEventLength' = o._minEventLength
    /\ _maxEventLength' = o._maxEventLength
    /\ _enabledPhy' = o._enabledPhy

\* Mutation of the constructor: _maxEventLength starts at 0xFF.
ConnectionParameters_ShortMaxEventLength ==
    [ _scanInterval |-> [i \in Slots |-> DefaultScanInterval],
      _scanWindow |-> [i \in Slots |-> DefaultScanWindow],
      _minConnectionInterval |-> [i \in Slots |-> DefaultMinConnectionInterval],
      _maxConnectionInterval |-> [i \in Slots |-> DefaultMaxConnectionInterval],
      _slaveLatency |-> [i \in Slots |-> DefaultSlaveLatency],
      _connectionSupervisionTimeout |->
          [i \in Slots |-> DefaultConnectionSupervisionTimeout],
      _minEventLength |-> [i \in Slots |-> DefaultMinEventLength],
      _maxEventLength |-> [i \in Slots |-> 255],
      _enabledPhy |-> [i \in Slots |-> FALSE] ]

\* ConnectionParameters(): every slot gets the defaults, no PHY is enabled.
ConnectionParameters ==
    [ _scanInterval |-> [i \in Slots |-> DefaultScanInterval],
      _scanWindow |-> [i \in Slots |-> DefaultScanWindow],
      _minConnectionInterval |-> [i \in Slots |-> DefaultMinConnectionInterval],
      _maxConnectionInterval |-> [i \in Slots |-> DefaultMaxConnectionInterval],
      _slaveLatency |-> [i \in Slots |-> DefaultSlaveLatency],
      _connectionSupervisionTimeout |->
          [i \in Slots |-> DefaultConnectionSupervisionTimeout],
      _minEventLength |-> [i \in Slots |-> DefaultMinEventLength],
      _maxEventLength |-> [i \in Slots |-> DefaultMaxEventLength],
      _enabledPhy |-> [i \in Slots |-> FALSE] ]

-----------------------------------------------------------------------------
(* Private member functions.                                               *)

\* Mutation of isSwapped: tests that 2M is enabled instead of disabled.
isSwapped_Requires2M(o) ==
    /\ o._enabledPhy[LE_1M]
    /\ o._enabledPhy[LE_2M]
    /\ o._enabledPhy[LE_CODED]

isSwapped(o) ==
    /\ o._enabledPhy[LE_1M]
    /\ ~o._enabledPhy[LE_2M]
    /\ o._enabledPhy[LE_CODED]

\* An array with the elements at LE_2M and LE_CODED exchanged.
Exchanged(a) == [a EXCEPT ![LE_2M] = a[LE_CODED], ![LE_CODED] = a[LE_2M]]

\* Mutation of swapCodedAnd2M: the scan window is not exchanged.
swapCodedAnd2M_ScanWindowKept(o) ==
    [ o EXCEPT
        !._scanInterval = Exchanged(@),
        !._minConnectionInterval = Exchanged(@),
        !._maxConnectionInterval = Exchanged(@),
        !._slaveLatency =
            [@ EXCEPT ![LE_2M] = o._slaveLatency[LE_CODED],
                      ![LE_CODED] = o._maxConnectionInterval[LE_2M]],
        !._connectionSupervisionTimeout = Exchanged(@),
        !._minEventLength = Exchanged(@),
        !._maxEventLength = Exchanged(@) ]

\* Mutation of swapCodedAnd2M: the min event length is not exchanged.
swapCodedAnd2M_MinEventLengthKept(o) ==
    [ o EXCEPT
        !._scanInterval = Exchanged(@),
        !._scanWindow = Exchanged(@),
        !._minConnectionInterval = Exchanged(@),
        !._maxConnectionInterval = Exchanged(@),
        !._slaveLatency =
            [@ EXCEPT ![LE_2M] = o._slaveLatency[LE_CODED],
                      ![LE_CODED] = o._maxConnectionInterval[LE_2M]],
        !._connectionSupervisionTimeout = Exchanged(@),
        !._maxEventLength = Exchanged(@) ]

\* The temporaries are read from slot LE_2M; the temporary slaveLatency is
\* read from _maxConnectionInterval, as the source does.
swapCodedAnd2M(o) ==
    LET scanInterval == o._scanInterval[LE_2M]
        scanWindow == o._scanWindow[LE_2M]
        minConnectionInterval == o._minConnectionInterval[LE_2M]
        maxConnectionInterval == o._maxConnectionInterval[LE_2M]
        slaveLatency == o._maxConnectionInterval[LE_2M]
        connectionSupervisionTimeout == o._connectionSupervisionTimeout[LE_2M]
        minEventLength == o._minEventLength[LE_2M]
        maxEventLength == o._maxEventLength[LE_2M]
    IN  [ o EXCEPT
            !._scanInterval =
                [@ EXCEPT ![LE_2M] = o._scanInterval[LE_CODED],
                          ![LE_CODED] = scanInterval],
            !._scanWindow =
                [@ EXCEPT ![LE_2M] = o._scanWindow[LE_CODED],
                          ![LE_CODED] = scanWindow],
            !._minConnectionInterval =
                [@ EXCEPT ![LE_2M] = o._minConnectionInterval[LE_CODED],
                          ![LE_CODED] = minConnectionInterval],
            !._maxConnectionInterval =
                [@ EXCEPT ![LE_2M] = o._maxConnectionInterval[LE_CODED],
                          ![LE_CODED] = maxConnectionInterval],
            !._slaveLatency =
                [@ EXCEPT ![LE_2M] = o._slaveLatency[LE_CODED],
                          ![LE_CODED] = slaveLatency],
            !._connectionSupervisionTimeout =
                [@ EXCEPT ![LE_2M] = o._connectionSupervisionTimeout[LE_CODED],
                          ![LE_CODED] = connectionSupervisionTimeout],
            !._minEventLength =
                [@ EXCEPT ![LE_2M] = o._minEventLength[LE_CODED],
                          ![LE_CODED] = minEventLength],
            !._maxEventLength =
                [@ EXCEPT ![LE_2M] = o._maxEventLength[LE_CODED],
                          ![LE_CODED] = maxEventLength] ]

\* Mutation of handlePhyToggle: the swap on entering or leaving the swapped
\* set is left out.
handlePhyToggle_NoSwap(o, phy, enable) ==
    LET index == phy
        o1 == [o EXCEPT !._enabledPhy[phy] = enable]
        is_swapped == isSwapped(o1)
    IN  [ obj |-> o1,
          index |-> IF is_swapped /\ phy = LE_CODED THEN index - 1 ELSE index ]

\* Mutation of handlePhyToggle: the index of Coded is not corrected while
\* swapped.
handlePhyToggle_NoIndexFix(o, phy, enable) ==
    LET index == phy
        was_swapped == isSwapped(o)
        o1 == [o EXCEPT !._enabledPhy[phy] = enable]
        is_swapped == isSwapped(o1)
        o2 == IF was_swapped # is_swapped THEN swapCodedAnd2M(o1) ELSE o1
    IN  [ obj |-> o2, index |-> index ]

\* Returns the object after the toggle and the index the setters write to.
handlePhyToggle(o, phy, enable) ==
    LET index == phy
        was_swapped == isSwapped(o)
        o1 == [o EXCEPT !._enabledPhy[phy] = enable]
        is_swapped == isSwapped(o1)
        o2 == IF was_swapped # is_swapped THEN swapCodedAnd2M(o1) ELSE o1
    IN  [ obj |-> o2,
          index |-> IF is_swapped /\ phy = LE_CODED THEN index - 1 ELSE index ]

-----------------------------------------------------------------------------
(* Public setters.  Each returns the object after the call.                *)

setScanParameters(o, scanInterval, scanWindow, phy) ==
    LET t == handlePhyToggle(o, phy, TRUE)
        phy_index == t.index
    IN  [ t.obj EXCEPT !._scanInterval[phy_index] = scanInterval,
                       !._scanWindow[phy_index] = scanWindow ]

\* Mutation of setConnectionParameters: the connection interval pair is
\* clamped like the event length pair.
setConnectionParameters_ClampInterval(o, minConnectionInterval, maxConnectionInterval, slaveLatency, connectionSupervisionTimeout, phy, minEventLength, maxEventLength) ==
    LET t == handlePhyToggle(o, phy, TRUE)
        phy_index == t.index
        minConnectionInterval1 == IF minConnectionInterval > maxConnectionInterval
                                  THEN maxConnectionInterval
                                  ELSE minConnectionInterval
        minEventLength1 == IF minEventLength > maxEventLength
                           THEN maxEventLength ELSE minEventLength
    IN  [ t.obj EXCEPT
            !._minConnectionInterval[phy_index] = minConnectionInterval1,
            !._maxConnectionInterval[phy_index] = maxConnectionInterval,
            !._slaveLatency[phy_index] = slaveLatency,
            !._connectionSupervisionTimeout[phy_index] =
                connectionSupervisionTimeout,
            !._minEventLength[phy_index] = minEventLength1,
            !._maxEventLength[phy_index] = maxEventLength ]

\* Mutation of setConnectionParameters: minEventLength is stored unclamped.
setConnectionParameters_NoClamp(o, minConnectionInterval, maxConnectionInterval, slaveLatency, connectionSupervisionTimeout, phy, minEventLength, maxEventLength) ==
    LET t == handlePhyToggle(o, phy, TRUE)
        phy_index == t.index
    IN  [ t.obj EXCEPT
            !._minConnectionInterval[phy_index] = minConnectionInterval,
            !._maxConnectionInterval[phy_index] = maxConnectionInterval,
            !._slaveLatency[phy_index] = slaveLatency,
            !._connectionSupervisionTimeout[phy_index] =
                connectionSupervisionTimeout,
            !._minEventLength[phy_index] = minEventLength,
            !._maxEventLength[phy_index] = maxEventLength ]

setConnectionParameters(o, minConnectionInterval, maxConnectionInterval, slaveLatency, connectionSupervisionTimeout, phy, minEventLength, maxEventLength) ==
    LET t == handlePhyToggle(o, phy, TRUE)
        phy_index == t.index
        \* avoid overflows and truncation
        minEventLength1 == IF minEventLength > maxEventLength
                           THEN maxEventLength ELSE minEventLength
    IN  [ t.obj EXCEPT
            !._minConnectionInterval[phy_index] = minConnectionInterval,
            !._maxConnectionInterval[phy_index] = maxConnectionInterval,
            !._slaveLatency[phy_index] = slaveLatency,
            !._connectionSupervisionTimeout[phy_index] =
                connectionSupervisionTimeout,
            !._minEventLength[phy_index] = minEventLength1,
            !._maxEventLength[phy_index] = maxEventLength ]

\* Mutation of togglePhy: the Coded PHY is toggled with the 2M argument.
togglePhy_CodedFrom2M(o, phy1M, phy2M, phyCoded) ==
    LET o1 == handlePhyToggle(o, LE_1M, phy1M).obj
        o2 == handlePhyToggle(o1, LE_2M, phy2M).obj
    IN  handlePhyToggle(o2, LE_CODED, phy2M).obj

togglePhy(o, phy1M, phy2M, phyCoded) ==
    LET o1 == handlePhyToggle(o, LE_1M, phy1M).obj
        o2 == handlePhyToggle(o1, LE_2M, phy2M).obj
    IN  handlePhyToggle(o2, LE_CODED, phyCoded).obj

disablePhy(o, phy) == handlePhyToggle(o, phy, FALSE).obj

enablePhy(o, phy) == handlePhyToggle(o, phy, TRUE).obj

-----------------------------------------------------------------------------
(* Getters.                                                                *)

BoolToInt(b) == IF b THEN 1 ELSE 0

getNumberOfEnabledPhys(o) ==
    BoolToInt(o._enabledPhy[LE_1M]) * 1
        + BoolToInt(o._enabledPhy[LE_2M]) * 1
        + BoolToInt(o._enabledPhy[LE_CODED]) * 1

\* ble::phy_set_t(phy1m, phy2m, phycoded).value(): bit 0 = 1M, bit 1 = 2M,
\* bit 2 = Coded.
phy_set_t(phy1m, phy2m, phycoded) ==
    BoolToInt(phy1m) * 1 + BoolToInt(phy2m) * 2 + BoolToInt(phycoded) * 4

\* Mutation of getPhySet: the 2M and Coded flags are passed in the wrong order.
getPhySet_FlagsExchanged(o) ==
    phy_set_t(o._enabledPhy[LE_1M], o._enabledPhy[LE_CODED],
              o._enabledPhy[LE_2M])

getPhySet(o) ==
    phy_set_t(o._enabledPhy[LE_1M], o._enabledPhy[LE_2M],
              o._enabledPhy[LE_CODED])

\* MBED_ASSERT(expr): TRUE when the assertion fails, which halts the program
\* (mbed_assert_internal); an expression that holds lets execution go on.
MBED_ASSERT(expr) == ~expr

\* The argument of the assertion in getFirstEnabledIndex is a string literal:
\* a non-null pointer, which converts to true.
StringLiteral == TRUE

\* Mutation of getFirstEnabledIndex: the flags are tested from Coded down.
getFirstEnabledIndex_CodedFirst(o) ==
    IF o._enabledPhy[LE_CODED] THEN [halted |-> FALSE, value |-> 2]
    ELSE IF o._enabledPhy[LE_2M] THEN [halted |-> FALSE, value |-> 1]
    ELSE IF o._enabledPhy[LE_1M] THEN [halted |-> FALSE, value |-> 0]
    ELSE IF MBED_ASSERT(StringLiteral) THEN [halted |-> TRUE, value |-> 0]
    ELSE [halted |-> FALSE, value |-> 0]

\* [halted, value]: value is the index returned when the call returns.
getFirstEnabledIndex(o) ==
    IF o._enabledPhy[LE_1M] THEN [halted |-> FALSE, value |-> 0]
    ELSE IF o._enabledPhy[LE_2M] THEN [halted |-> FALSE, value |-> 1]
    ELSE IF o._enabledPhy[LE_CODED] THEN [halted |-> FALSE, value |-> 2]
    ELSE IF MBED_ASSERT(StringLiteral) THEN [halted |-> TRUE, value |-> 0]
    ELSE [halted |-> FALSE, value |-> 0]

\* &array[getFirstEnabledIndex()]: the returned pointer is modelled by the
\* index it points at.
getScanIntervalArray(o) == getFirstEnabledIndex(o)

getScanWindowArray(o) == getFirstEnabledIndex(o)

getMinConnectionIntervalArray(o) == getFirstEnabledIndex(o)

getMaxConnectionIntervalArray(o) == getFirstEnabledIndex(o)

getSlaveLatencyArray(o) == getFirstEnabledIndex(o)

getConnectionSupervisionTimeoutArray(o) == getFirstEnabledIndex(o)

getMinEventLengthArray(o) == getFirstEnabledIndex(o)

getMaxEventLengthArray(o) == getFirstEnabledIndex(o)

\* The getter of a series, by the name of the member it points into.
ArrayGetter(s, o) ==
    CASE s = "_scanInterval" -> getScanIntervalArray(o)
      [] s = "_scanWindow" -> getScanWindowArray(o)
      [] s = "_minConnectionInterval" -> getMinConnectionIntervalArray(o)
      [] s = "_maxConnectionInterval" -> getMaxConnectionIntervalArray(o)
      [] s = "_slaveLatency" -> getSlaveLatencyArray(o)
      [] s = "_connectionSupervisionTimeout" ->
             getConnectionSupervisionTimeoutArray(o)
      [] s = "_minEventLength" -> getMinEventLengthArray(o)
      [] s = "_maxEventLength" -> getMaxEventLengthArray(o)

-----------------------------------------------------------------------------
(* Argument vectors of the setter calls.                                   *)

\* <<scanInterval, scanWindow>>
ScanInput(n) == << 16 * n, 8 * n >>

\* <<minConnectionInterval, maxConnectionInterval, slaveLatency,
\*   connectionSupervisionTimeout, minEventLength, maxEventLength>>
\* n = 1 has minEventLength > maxEventLength (100 / 50); from n = 2 on
\* minConnectionInterval > maxConnectionInterval.
ConnInput(n) == << 8 * n, 12 + n, n, 100 * n, 100, 150 * n - 100 >>

\* setScanParameters is called with one vector; a slot's scan values are
\* those or the defaults.
ScanInputs == { ScanInput(1) }

ConnInputs == { ConnInput(n) : n \in 1 .. MaxConnInput }

\* The PHYs whose flag is set.
EnabledPhys(o) == { p \in Phys : o._enabledPhy[p] }

\* The record of a call: its name, its PHY argument (a set, empty when the
\* call takes none), its other arguments, the PHYs enabled when it was made,
\* the value it returned (a sequence, empty when there is none; for a setter,
\* the index handlePhyToggle gave it) and whether it halted.
Call(op, phy, args, index, halted) ==
    [ op |-> op, phy |-> phy, args |-> args, before |-> EnabledPhys(this),
      index |-> index, halted |-> halted ]

DefaultValues ==
    [ _scanInterval |-> DefaultScanInterval,
      _scanWindow |-> DefaultScanWindow,
      _minConnectionInterval |-> DefaultMinConnectionInterval,
      _maxConnectionInterval |-> DefaultMaxConnectionInterval,
      _slaveLatency |-> DefaultSlaveLatency,
      _connectionSupervisionTimeout |-> DefaultConnectionSupervisionTimeout,
      _minEventLength |-> DefaultMinEventLength,
      _maxEventLength |-> DefaultMaxEventLength ]

Min(a, b) == IF a < b THEN a ELSE b

-----------------------------------------------------------------------------
(* The state machine: a freshly constructed object and any sequence of     *)
(* calls on it.                                                            *)

Init ==
    /\ _scanInterval = ConnectionParameters._scanInterval
    /\ _scanWindow = ConnectionParameters._scanWindow
    /\ _minConnectionInterval = ConnectionParameters._minConnectionInterval
    /\ _maxConnectionInterval = ConnectionParameters._maxConnectionInterval
    /\ _slaveLatency = ConnectionParameters._slaveLatency
    /\ _connectionSupervisionTimeout =
           ConnectionParameters._connectionSupervisionTimeout
    /\ _minEventLength = ConnectionParameters._minEventLength
    /\ _maxEventLength = ConnectionParameters._maxEventLength
    /\ _enabledPhy = ConnectionParameters._enabledPhy
    /\ lastSet = [p \in Phys |-> DefaultValues]
    /\ last = Call("ConnectionParameters", {}, << >>, << >>, FALSE)

\* A failed assertion halts the program: nothing is called after it.
Running == ~last.halted

SetScanParameters(in, phy) ==
    /\ Running
    /\ Becomes(setScanParameters(this, in[1], in[2], phy))
    /\ lastSet' = [lastSet EXCEPT ![phy]._scanInterval = in[1],
                                  ![phy]._scanWindow = in[2]]
    /\ last' = Call("setScanParameters", {phy}, in,
                    << handlePhyToggle(this, phy, TRUE).index >>, FALSE)

SetConnectionParameters(in, phy) ==
    /\ Running
    /\ Becomes(setConnectionParameters(this, in[1], in[2], in[3], in[4], phy,
                                       in[5], in[6]))
    /\ lastSet' = [lastSet EXCEPT ![phy]._minConnectionInterval = in[1],
                                  ![phy]._maxConnectionInterval = in[2],
                                  ![phy]._slaveLatency = in[3],
                                  ![phy]._connectionSupervisionTimeout = in[4],
                                  ![phy]._minEventLength = Min(in[5], in[6]),
                                  ![phy]._maxEventLength = in[6]]
    /\ last' = Call("setConnectionParameters", {phy}, in,
                    << handlePhyToggle(this, phy, TRUE).index >>, FALSE)

TogglePhy(phy1M, phy2M, phyCoded) ==
    /\ Running
    /\ Becomes(togglePhy(this, phy1M, phy2M, phyCoded))
    /\ last' = Call("togglePhy", {}, << phy1M, phy2M, phyCoded >>,
                    << >>, FALSE)
    /\ UNCHANGED lastSet

DisablePhy(phy) ==
    /\ Running
    /\ Becomes(disablePhy(this, phy))
    /\ last' = Call("disablePhy", {phy}, << >>, << >>, FALSE)
    /\ UNCHANGED lastSet

EnablePhy(phy) ==
    /\ Running
    /\ Becomes(enablePhy(this, phy))
    /\ last' = Call("enablePhy", {phy}, << >>, << >>, FALSE)
    /\ UNCHANGED lastSet

\* A getter leaves the object alone; the call either returns a pointer or
\* halts in the assertion.
Get(op, r) ==
    /\ Running
    /\ last' = Call(op, {}, << >>, << r.value >>, r.halted)
    /\ UNCHANGED << members, lastSet >>

GetScanIntervalArray == Get("getScanIntervalArray", getScanIntervalArray(this))

GetScanWindowArray == Get("getScanWindowArray", getScanWindowArray(this))

GetMinConnectionIntervalArray ==
    Get("getMinConnectionIntervalArray", getMinConnectionIntervalArray(this))

GetMaxConnectionIntervalArray ==
    Get("getMaxConnectionIntervalArray", getMaxConnectionIntervalArray(this))

GetSlaveLatencyArray == Get("getSlaveLatencyArray", getSlaveLatencyArray(this))

GetConnectionSupervisionTimeoutArray ==
    Get("getConnectionSupervisionTimeoutArray",
        getConnectionSupervisionTimeoutArray(this))

GetMinEventLengthArray ==
    Get("getMinEventLengthArray", getMinEventLengthArray(this))

GetMaxEventLengthArray ==
    Get("getMaxEventLengthArray", getMaxEventLengthArray(this))

GetNumberOfEnabledPhys ==
    /\ Running
    /\ last' = Call("getNumberOfEnabledPhys", {}, << >>,
                    << getNumberOfEnabledPhys(this) >>, FALSE)
    /\ UNCHANGED << members, lastSet >>

GetPhySet ==
    /\ Running
    /\ last' = Call("getPhySet", {}, << >>, << getPhySet(this) >>, FALSE)
    /\ UNCHANGED << members, lastSet >>

\* Any sequence of configuration calls on a fresh object.
Next ==
    \/ \E in \in ScanInputs, phy \in Phys : SetScanParameters(in, phy)
    \/ \E in \in ConnInputs, phy \in Phys : SetConnectionParameters(in, phy)
    \/ \E a \in BOOLEAN, b \in BOOLEAN, c \in BOOLEAN : TogglePhy(a, b, c)
    \/ \E phy \in Phys : DisablePhy(phy)
    \/ \E phy \in Phys : EnablePhy(phy)

Spec == Init /\ [][Next]_vars

\* Configuration calls and reads through the getters, in any order.  Each
\* setter is called with its first argument vector: the getters look at the
\* enabled flags only.
NextRead ==
    \/ \E phy \in Phys : SetScanParameters(ScanInput(1), phy)
    \/ \E phy \in Phys : SetConnectionParameters(ConnInput(1), phy)
    \/ \E a \in BOOLEAN, b \in BOOLEAN, c \in BOOLEAN : TogglePhy(a, b, c)
    \/ \E phy \in Phys : DisablePhy(phy)
    \/ \E phy \in Phys : EnablePhy(phy)
    \/ GetScanIntervalArray
    \/ GetScanWindowArray
    \/ GetMinConnectionIntervalArray
    \/ GetMaxConnectionIntervalArray
    \/ GetSlaveLatencyArray
    \/ GetConnectionSupervisionTimeoutArray
    \/ GetMinEventLengthArray
    \/ GetMaxEventLengthArray
    \/ GetNumberOfEnabledPhys
    \/ GetPhySet

SpecRead == Init /\ [][NextRead]_vars

-----------------------------------------------------------------------------
(* The compacted view, as the consumer of the getters reads it: the        *)
(* getNumberOfEnabledPhys() elements that start at the pointer a series    *)
(* getter returns.                                                         *)

\* Position of an enabled PHY in ascending PHY order among the enabled PHYs.
Rank(o, phy) == Cardinality({ q \in EnabledPhys(o) : q < phy })

\* The enabled PHY at position k.
PhyAt(o, k) == CHOOSE p \in EnabledPhys(o) : Rank(o, p) = k

ViewLength(o) == getNumberOfEnabledPhys(o)

\* The view stays inside the array.
ViewInBounds(o) ==
    getFirstEnabledIndex(o).value + ViewLength(o) <= MAX_PARAM_PHYS

\* Entry k (from 0) of the compacted view of series s.
ViewEntry(o, s, k) == o[s][ArrayGetter(s, o).value + k]

\* What the compacted view shows for the enabled PHY phy.
ViewOf(o, s, phy) == ViewEntry(o, s, Rank(o, phy))

-----------------------------------------------------------------------------
(* A fresh object on which each PHY is configured at most once: one        *)
(* setScanParameters and one setConnectionParameters call per PHY, with    *)
(* values that identify the PHY, in any order.                             *)

OrderScanInput(phy) == ScanInput(phy + 1)

OrderConnInput(phy) == ConnInput(phy + 1)

ScanConfigured(phy) == lastSet[phy]._scanInterval # DefaultScanInterval

ConnConfigured(phy) ==
    lastSet[phy]._connectionSupervisionTimeout
        # DefaultConnectionSupervisionTimeout

ConfigureScan(phy) ==
    /\ ~ScanConfigured(phy)
    /\ SetScanParameters(OrderScanInput(phy), phy)

ConfigureConnection(phy) ==
    /\ ~ConnConfigured(phy)
    /\ SetConnectionParameters(OrderConnInput(phy), phy)

NextOrder ==
    \/ \E phy \in Phys : ConfigureScan(phy)
    \/ \E phy \in Phys : ConfigureConnection(phy)

SpecOrder == Init /\ [][NextOrder]_vars

-----------------------------------------------------------------------------
(* A fresh object on which only 1M and Coded are configured or enabled,    *)
(* never disabled.                                                         *)

SwapPathPhys == {LE_1M, LE_CODED}

NextSwapPath ==
    \/ \E in \in ScanInputs, phy \in SwapPathPhys : SetScanParameters(in, phy)
    \/ \E in \in ConnInputs, phy \in SwapPathPhys :
           SetConnectionParameters(in, phy)
    \/ \E phy \in SwapPathPhys : EnablePhy(phy)

SpecSwapPath == Init /\ [][NextSwapPath]_vars

-----------------------------------------------------------------------------
(* Properties.                                                             *)

\* C1: compaction invariant.  Whenever at least one PHY is enabled, for each
\* of the 8 series the slots [getFirstEnabledIndex(), getFirstEnabledIndex()
\* + getNumberOfEnabledPhys()) hold the current values of the enabled PHYs
\* (last set, or the default), in ascending PHY order.
C1_CompactionInvariant ==
    ViewLength(this) >= 1 =>
        /\ ViewInBounds(this)
        /\ \A s \in Series : \A k \in 0 .. (ViewLength(this) - 1) :
               ViewEntry(this, s, k) = lastSet[PhyAt(this, k)][s]

\* C2: order independence.  On a fresh object, once every PHY of a non-empty
\* set S has had its one setScanParameters and its one
\* setConnectionParameters call (in any order, no other PHY touched), the
\* compacted view of every series has |S| entries, the values set for the
\* PHYs of S in ascending PHY order.
C2_OrderIndependence ==
    LET S == EnabledPhys(this)
    IN  (S # {} /\ \A p \in S : ScanConfigured(p) /\ ConnConfigured(p)) =>
            /\ ViewLength(this) = Cardinality(S)
            /\ \A s \in ScanSeries : \A p \in S :
                   ViewOf(this, s, p)
                       = OrderScanInput(p)[IF s = "_scanInterval" THEN 1 ELSE 2]
            /\ \A p \in S :
                   /\ ViewOf(this, "_minConnectionInterval", p)
                          = OrderConnInput(p)[1]
                   /\ ViewOf(this, "_maxConnectionInterval", p)
                          = OrderConnInput(p)[2]
                   /\ ViewOf(this, "_slaveLatency", p) = OrderConnInput(p)[3]
                   /\ ViewOf(this, "_connectionSupervisionTimeout", p)
                          = OrderConnInput(p)[4]
                   /\ ViewOf(this, "_minEventLength", p)
                          = Min(OrderConnInput(p)[5], OrderConnInput(p)[6])
                   /\ ViewOf(this, "_maxEventLength", p) = OrderConnInput(p)[6]

\* C3: toggle round trip.  In a state where PHY P is enabled together with
\* another PHY, disablePhy(P) followed by enablePhy(P) leaves the compacted
\* view of every other enabled PHY unchanged in all 8 series.
C3_ToggleRoundTrip ==
    \A P \in EnabledPhys(this) :
        LET o2 == enablePhy(disablePhy(this, P), P)
        IN  \A Q \in EnabledPhys(this) \ {P} : \A s \in Series :
                ViewOf(o2, s, Q) = ViewOf(this, s, Q)

\* C4: entering the swapped state.  When 1M, 2M and Coded are all enabled,
\* disablePhy(2M) yields a view of length 2 whose entry 0 is the previous
\* entry 0 and whose entry 1 is the previous entry 2, in all 8 series.
C4_EnterSwapped ==
    [][ ( /\ EnabledPhys(this) = Phys
          /\ last'.op = "disablePhy"
          /\ last'.phy = {LE_2M} )
        => ( /\ ViewLength(this)' = 2
             /\ \A s \in Series :
                    /\ ViewEntry(this, s, 0)' = ViewEntry(this, s, 0)
                    /\ ViewEntry(this, s, 1)' = ViewEntry(this, s, 2) ) ]_vars

\* A disablePhy(2M) made with all three PHYs enabled and Coded configured
\* differently from 2M has just returned.
C4_Witness ==
    /\ last.op = "disablePhy"
    /\ last.phy = {LE_2M}
    /\ last.before = Phys
    /\ lastSet[LE_CODED] # lastSet[LE_2M]
    /\ ConnConfigured(LE_CODED)

\* C5: swap path from a fresh object.  When only 1M and Coded are ever
\* configured or enabled and both are enabled, the view of every series has
\* length 2, entry 0 the current value of 1M and entry 1 that of Coded.
C5_SwapPath ==
    EnabledPhys(this) = {LE_1M, LE_CODED} =>
        /\ ViewLength(this) = 2
        /\ \A s \in Series :
               /\ ViewEntry(this, s, 0) = lastSet[LE_1M][s]
               /\ ViewEntry(this, s, 1) = lastSet[LE_CODED][s]

\* Coded was configured first, alone, and 1M has just been enabled.
C5_Witness ==
    /\ last.op = "enablePhy"
    /\ last.phy = {LE_1M}
    /\ last.before = {LE_CODED}
    /\ ScanConfigured(LE_CODED)
    /\ ConnConfigured(LE_CODED)

\* C6: set-then-read with index correction.  Right after a setter call for
\* PHY P, P is enabled, the compacted view shows at P's position the values
\* just passed for the series the setter writes (min event length clamped),
\* and they were written to slot 1 when P is Coded and the enabled set is
\* {1M, Coded}, to P's own slot otherwise.
C6_SetThenRead ==
    LET P == CHOOSE p \in last.phy : TRUE
        in == last.args
        slot == IF P = LE_CODED /\ EnabledPhys(this) = {LE_1M, LE_CODED}
                THEN 1 ELSE P
    IN  /\ last.op = "setScanParameters" =>
            /\ _enabledPhy[P]
            /\ ViewOf(this, "_scanInterval", P) = in[1]
            /\ ViewOf(this, "_scanWindow", P) = in[2]
            /\ last.index = << slot >>
            /\ ArrayGetter("_scanInterval", this).value + Rank(this, P) = slot
        /\ last.op = "setConnectionParameters" =>
            /\ _enabledPhy[P]
            /\ ViewOf(this, "_minConnectionInterval", P) = in[1]
            /\ ViewOf(this, "_maxConnectionInterval", P) = in[2]
            /\ ViewOf(this, "_slaveLatency", P) = in[3]
            /\ ViewOf(this, "_connectionSupervisionTimeout", P) = in[4]
            /\ ViewOf(this, "_minEventLength", P) = Min(in[5], in[6])
            /\ ViewOf(this, "_maxEventLength", P) = in[6]
            /\ last.index = << slot >>
            /\ ArrayGetter("_slaveLatency", this).value + Rank(this, P) = slot

\* setConnectionParameters for Coded has just returned in the swapped set,
\* overriding values set for Coded by an earlier call.
C6_Witness ==
    /\ last.op = "setConnectionParameters"
    /\ last.phy = {LE_CODED}
    /\ last.before = {LE_1M, LE_CODED}
    /\ EnabledPhys(this) = {LE_1M, LE_CODED}
    /\ last.index = << 1 >>
    /\ last.args = ConnInput(2)
    /\ _slaveLatency[1] = ConnInput(2)[3]

ArrayGetterNames ==
    { "getScanIntervalArray", "getScanWindowArray",
      "getMinConnectionIntervalArray", "getMaxConnectionIntervalArray",
      "getSlaveLatencyArray", "getConnectionSupervisionTimeoutArray",
      "getMinEventLengthArray", "getMaxEventLengthArray" }

\* C7: the empty set is fatal.  A series array getter called while no PHY is
\* enabled halts in the assertion; it never returns an index or a pointer.
C7_EmptySetFatal ==
    (last.op \in ArrayGetterNames /\ EnabledPhys(this) = {}) => last.halted

\* C8: event-length clamping.  After setConnectionParameters(..., P, a, b)
\* the slot written for P holds max event length b and min event length
\* min(a, b), the other four series as given, and the call has returned.
C8_EventLengthClamp ==
    last.op = "setConnectionParameters" =>
        LET in == last.args
            i == last.index[1]
        IN  /\ ~last.halted
            /\ _maxEventLength[i] = in[6]
            /\ _minEventLength[i] = (IF in[5] <= in[6] THEN in[5] ELSE in[6])
            /\ _minConnectionInterval[i] = in[1]
            /\ _maxConnectionInterval[i] = in[2]
            /\ _slaveLatency[i] = in[3]
            /\ _connectionSupervisionTimeout[i] = in[4]

\* A call with an inverted pair (100 / 50) has returned and stored 50 / 50.
C8_Witness ==
    /\ last.op = "setConnectionParameters"
    /\ last.args[5] = 100
    /\ last.args[6] = 50
    /\ _minEventLength[last.index[1]] = 50
    /\ _maxEventLength[last.index[1]] = 50
    /\ ~last.halted

RECURSIVE SumOfBits(_)
\* Sum of 1 << i over a set of PHY indices.
SumOfBits(S) ==
    IF S = {} THEN 0
    ELSE LET p == CHOOSE x \in S : TRUE
         IN  2 ^ p + SumOfBits(S \ {p})

\* Number of bits set in a 3-bit mask.
BitsSet(m) == (m % 2) + ((m \div 2) % 2) + ((m \div 4) % 2)

\* C9: the bitmask reflects logical identity.  getPhySet() is the sum of
\* 1 << i over the enabled PHYs, swapped or not, and
\* getNumberOfEnabledPhys() is the number of bits set in it.
C9_PhySet ==
    /\ getPhySet(this) = SumOfBits(EnabledPhys(this))
    /\ getNumberOfEnabledPhys(this) = BitsSet(getPhySet(this))
    /\ last.op = "getPhySet" => last.index = << SumOfBits(EnabledPhys(this)) >>
    /\ last.op = "getNumberOfEnabledPhys" =>
           last.index = << BitsSet(SumOfBits(EnabledPhys(this))) >>

\* getPhySet() has returned 5 in the swapped set, with slot 1 holding values
\* set for Coded.
C9_Witness ==
    /\ last.op = "getPhySet"
    /\ isSwapped(this)
    /\ last.index = << 5 >>
    /\ ConnConfigured(LE_CODED)
    /\ _connectionSupervisionTimeout[1]
           = lastSet[LE_CODED]._connectionSupervisionTimeout

\* C10: setters enable exactly their PHY.  A setter leaves P enabled and the
\* two other flags as they were; enablePhy(P) / disablePhy(P) set only P's
\* flag; togglePhy(a, b, c) leaves the flags equal to (a, b, c).
C10_EnableFrame ==
    LET P == CHOOSE p \in last.phy : TRUE
        others == \A q \in Phys \ {P} : _enabledPhy[q] = (q \in last.before)
    IN  /\ last.op \in {"setScanParameters", "setConnectionParameters",
                        "enablePhy"} => (_enabledPhy[P] /\ others)
        /\ last.op = "disablePhy" => (~_enabledPhy[P] /\ others)
        /\ last.op = "togglePhy" =>
               /\ _enabledPhy[LE_1M] = last.args[1]
               /\ _enabledPhy[LE_2M] = last.args[2]
               /\ _enabledPhy[LE_CODED] = last.args[3]

\* togglePhy(true, false, true) has returned on an object that had only 2M
\* enabled.
C10_Witness ==
    /\ last.op = "togglePhy"
    /\ last.before = {LE_2M}
    /\ last.args = << TRUE, FALSE, TRUE >>
    /\ EnabledPhys(this) = {LE_1M, LE_CODED}

\* C11: construction defaults.  Right after construction the three enabled
\* flags are false and every slot holds scan interval 4, scan window 4, min
\* connection interval 6, max connection interval 3200, latency 0,
\* supervision timeout 3200, min event length 0 and max event length 65535.
C11_ConstructionDefaults ==
    last.op = "ConnectionParameters" =>
        \A i \in 0 .. 2 :
            /\ _enabledPhy[i] = FALSE
            /\ _scanInterval[i] = 4
            /\ _scanWindow[i] = 4
            /\ _minConnectionInterval[i] = 6
            /\ _maxConnectionInterval[i] = 3200
            /\ _slaveLatency[i] = 0
            /\ _connectionSupervisionTimeout[i] = 3200
            /\ _minEventLength[i] = 0
            /\ _maxEventLength[i] = 65535

\* The constructor has run and nothing else has been called.
C11_Witness ==
    /\ last.op = "ConnectionParameters"
    /\ EnabledPhys(this) = {}
    /\ DOMAIN _scanInterval = 0 .. 2

\* The values of the three slots of the eight series.
Stored(o) == [s \in Series |-> o[s]]

\* b is a with the contents of slots 1 and 2 exchanged, in every series.
FullExchange(a, b) ==
    \A s \in Series :
        /\ b[s][LE_1M] = a[s][LE_1M]
        /\ b[s][LE_2M] = a[s][LE_CODED]
        /\ b[s][LE_CODED] = a[s][LE_2M]

\* C12: the corrective swap is a full exchange.  Whenever a toggle makes
\* swapCodedAnd2M run, in each of the 8 series slot 1 gets what slot 2 held,
\* slot 2 gets what slot 1 held, and slot 0 is untouched.
C12_SwapIsFullExchange ==
    \A phy \in Phys, enable \in BOOLEAN :
        LET o1 == [this EXCEPT !._enabledPhy[phy] = enable]
        IN  isSwapped(this) # isSwapped(o1) =>
                FullExchange(Stored(o1), Stored(swapCodedAnd2M(o1)))

\* C13: swap exactly on membership change.  A single toggle step
\* (handlePhyToggle) exchanges slots 1 and 2 once if 'enabled set = {1M,
\* Coded}' differs before and after the flag update, and otherwise leaves all
\* 3 x 8 stored values unchanged.
C13_SwapOnMembershipChange ==
    \A phy \in Phys, enable \in BOOLEAN :
        LET r == handlePhyToggle(this, phy, enable).obj
        IN  IF isSwapped(this) # isSwapped(r)
            THEN FullExchange(Stored(this), Stored(r))
            ELSE Stored(r) = Stored(this)

\* C14: setter frame.  Seen through the compacted view, setScanParameters for
\* PHY P leaves all 8 values of every other enabled PHY unchanged and, if P
\* was already enabled, P's six connection values; setConnectionParameters
\* for P leaves all 8 values of every other enabled PHY and, if P was already
\* enabled, P's scan interval and scan window.
C14_SetterFrame ==
    \A P \in Phys :
        /\ \A in \in ScanInputs :
               LET o2 == setScanParameters(this, in[1], in[2], P)
               IN  /\ \A Q \in EnabledPhys(this) \ {P} : \A s \in Series :
                          ViewOf(o2, s, Q) = ViewOf(this, s, Q)
                   /\ P \in EnabledPhys(this) =>
                          \A s \in ConnSeries :
                              ViewOf(o2, s, P) = ViewOf(this, s, P)
        /\ \A in \in ConnInputs :
               LET o2 == setConnectionParameters(this, in[1], in[2], in[3],
                                                 in[4], P, in[5], in[6])
               IN  /\ \A Q \in EnabledPhys(this) \ {P} : \A s \in Series :
                          ViewOf(o2, s, Q) = ViewOf(this, s, Q)
                   /\ P \in EnabledPhys(this) =>
                          \A s \in ScanSeries :
                              ViewOf(o2, s, P) = ViewOf(this, s, P)

\* C15: clamping asymmetry.  setConnectionParameters called with
\* minConnectionInterval > maxConnectionInterval stores both connection
\* interval values as given and returns; only the event length pair is
\* corrected.
C15_IntervalNotClamped ==
    (last.op = "setConnectionParameters" /\ last.args[1] > last.args[2]) =>
        LET i == last.index[1]
        IN  /\ ~last.halted
            /\ _minConnectionInterval[i] = last.args[1]
            /\ _maxConnectionInterval[i] = last.args[2]
            /\ _minConnectionInterval[i] > _maxConnectionInterval[i]
            /\ _minEventLength[i] <= _maxEventLength[i]

\* A call with min connection interval 16 and max connection interval 14
\* has returned and both are stored.
C15_Witness ==
    /\ last.op = "setConnectionParameters"
    /\ last.args[1] = 16
    /\ last.args[2] = 14
    /\ _minConnectionInterval[last.index[1]] = 16
    /\ _maxConnectionInterval[last.index[1]] = 14

\* C16: the compacted view never runs past the 3-element storage.  With at
\* least one PHY enabled, getFirstEnabledIndex() + getNumberOfEnabledPhys()
\* is at most 3, and an array getter returns that first index.
C16_ViewInsideStorage ==
    /\ getNumberOfEnabledPhys(this) >= 1 =>
           /\ ~getFirstEnabledIndex(this).halted
           /\ getFirstEnabledIndex(this).value + getNumberOfEnabledPhys(this)
                  <= 3
    /\ (last.op \in ArrayGetterNames /\ EnabledPhys(this) # {}) =>
           /\ ~last.halted
           /\ last.index[1] + Cardinality(EnabledPhys(this)) <= 3

\* An array getter has returned index 1 with 2M and Coded enabled: the view
\* ends at the last slot.
C16_Witness ==
    /\ last.op = "getMaxEventLengthArray"
    /\ EnabledPhys(this) = {LE_2M, LE_CODED}
    /\ last.index = << 1 >>

\* The objects one enablePhy or disablePhy call on a PHY other than P away
\* from an object of S.
ToggleOther(S, P) ==
    { handlePhyToggle(o, q, e).obj : o \in S, q \in Phys \ {P}, e \in BOOLEAN }

\* The objects any number of such calls away from an object of S.
RECURSIVE ToggleOthers(_, _)
ToggleOthers(S, P) ==
    LET T == S \cup ToggleOther(S, P)
    IN  IF T = S THEN S ELSE ToggleOthers(T, P)

\* C17: re-enabling restores a PHY's own values.  Where PHY P is enabled,
\* disablePhy(P), then any number of enable/disable calls on other PHYs and
\* no setter call, then enablePhy(P) makes the compacted view show for P the
\* same values as before, in all 8 series.
C17_ReenableRestores ==
    \A P \in EnabledPhys(this) :
        \A m \in ToggleOthers({ disablePhy(this, P) }, P) :
            \A s \in Series :
                ViewOf(enablePhy(m, P), s, P) = ViewOf(this, s, P)

\* The PHY whose values the claim of C18 places at slot i.
PlacedAt(o, i) ==
    IF i = 0 THEN LE_1M
    ELSE IF EnabledPhys(o) = {LE_1M, LE_CODED}
         THEN (IF i = 1 THEN LE_CODED ELSE LE_2M)
         ELSE (IF i = 1 THEN LE_2M ELSE LE_CODED)

\* C18: storage placement for seven series.  For every series but the slave
\* latency, slot 0 holds the value last set for 1M; slot 1 holds Coded's and
\* slot 2 holds 2M's when the enabled set is exactly {1M, Coded}; otherwise
\* slot 1 holds 2M's and slot 2 holds Coded's.
C18_StoragePlacement ==
    \A s \in Series \ {"_slaveLatency"} : \A i \in Slots :
        this[s][i] = lastSet[PlacedAt(this, i)][s]

\* Swapped, with 2M and Coded holding different set values: Coded's are in
\* slot 1 and 2M's in slot 2.
C18_Witness ==
    /\ EnabledPhys(this) = {LE_1M, LE_CODED}
    /\ lastSet[LE_2M]._scanWindow # lastSet[LE_CODED]._scanWindow
    /\ lastSet[LE_2M]._maxEventLength # lastSet[LE_CODED]._maxEventLength
    /\ lastSet[LE_2M]._maxEventLength # DefaultMaxEventLength
    /\ _maxEventLength[2] = lastSet[LE_2M]._maxEventLength
    /\ _maxEventLength[1] = lastSet[LE_CODED]._maxEventLength

\* C19: event length ordering.  In each of the three slots the stored min
\* event length is at most the stored max event length.
C19_EventLengthOrdered ==
    \A i \in Slots : _minEventLength[i] <= _maxEventLength[i]

\* A swap has just moved a clamped pair (50, 50) and a set pair (100, 200)
\* between slots 1 and 2.
C19_Witness ==
    /\ last.op = "disablePhy"
    /\ last.phy = {LE_2M}
    /\ isSwapped(this)
    /\ last.before = Phys
    /\ _minEventLength[1] = 50
    /\ _maxEventLength[1] = 50
    /\ _minEventLength[2] = 100
    /\ _maxEventLength[2] = 200

====
